---- MODULE Spec2Model ----
(***************************************************************************)
(* A model of tools/generate_types_from_api_json.py: the compiler that     *)
(* turns a flat, path-encoded catalog of API fields into Pydantic classes. *)
(*                                                                         *)
(* A Python str is a sequence of one-character strings, so that split,     *)
(* join, the regular expressions of to_snake_case, the suffix stripping    *)
(* and the f-strings that build class names are computed character by      *)
(* character, as the code computes them.                                   *)
(***************************************************************************)
EXTENDS Integers, Sequences, FiniteSets, TLC

(***************************************************************************)
(* Characters and strings                                                  *)
(***************************************************************************)

Digits == <<"0", "1", "2", "3", "4", "5", "6", "7", "8", "9">>

UpperLetters ==
    <<"A", "B", "C", "D", "E", "F", "G", "H", "I", "J", "K", "L", "M",
      "N", "O", "P", "Q", "R", "S", "T", "U", "V", "W", "X", "Y", "Z">>

LowerLetters ==
    <<"a", "b", "c", "d", "e", "f", "g", "h", "i", "j", "k", "l", "m",
      "n", "o", "p", "q", "r", "s", "t", "u", "v", "w", "x", "y", "z">>

\* The characters of the model in code point order: '.' < digits < upper
\* case < '_' < lower case.  Python compares str values by code point.
Alphabet == <<".">> \o Digits \o UpperLetters \o <<"_">> \o LowerLetters

Range(s) == {s[i] : i \in 1..Len(s)}

IsUpper(c) == c \in Range(UpperLetters)
IsLower(c) == c \in Range(LowerLetters)
IsDigit(c) == c \in Range(Digits)

Ord(c) == CHOOSE i \in 1..Len(Alphabet) : Alphabet[i] = c

\* str.lower() on one character.
LowerChar(c) ==
    IF IsUpper(c)
    THEN LowerLetters[CHOOSE i \in 1..Len(UpperLetters) : UpperLetters[i] = c]
    ELSE c

\* str.lower()
Lower(s) == [i \in 1..Len(s) |-> LowerChar(s[i])]

\* a < b for two str values (lexicographic by code point).
RECURSIVE StrLess(_, _)
StrLess(a, b) ==
    IF b = <<>> THEN FALSE
    ELSE IF a = <<>> THEN TRUE
    ELSE IF a[1] # b[1] THEN Ord(a[1]) < Ord(b[1])
    ELSE StrLess(Tail(a), Tail(b))

\* sorted(S) for a set S of str values.
RECURSIVE Sorted(_)
Sorted(S) ==
    IF S = {} THEN <<>>
    ELSE LET m == CHOOSE x \in S : \A y \in S : y = x \/ StrLess(x, y)
         IN  <<m>> \o Sorted(S \ {m})

\* s.split(".")
RECURSIVE SplitFrom(_, _, _)
SplitFrom(s, i, cur) ==
    IF i > Len(s) THEN <<cur>>
    ELSE IF s[i] = "." THEN <<cur>> \o SplitFrom(s, i + 1, <<>>)
    ELSE SplitFrom(s, i + 1, Append(cur, s[i]))

Split(s) == SplitFrom(s, 1, <<>>)

\* ".".join(parts)
RECURSIVE Join(_)
Join(parts) ==
    IF parts = <<>> THEN <<>>
    ELSE IF Len(parts) = 1 THEN parts[1]
    ELSE parts[1] \o <<".">> \o Join(Tail(parts))

\* "".join(parts)
RECURSIVE Concat(_)
Concat(parts) ==
    IF parts = <<>> THEN <<>> ELSE parts[1] \o Concat(Tail(parts))

\* name.endswith(suffix)
EndsWith(name, suffix) ==
    /\ Len(suffix) <= Len(name)
    /\ SubSeq(name, Len(name) - Len(suffix) + 1, Len(name)) = suffix

\* str(n) for n >= 0, as an f-string formats an int.
RECURSIVE DecStr(_)
DecStr(n) ==
    IF n < 10 THEN <<Digits[n + 1]>>
    ELSE Append(DecStr(n \div 10), Digits[(n % 10) + 1])

\* parts[:k]
Prefix(parts, k) == SubSeq(parts, 1, k)

(***************************************************************************)
(* The string constants of the source                                      *)
(***************************************************************************)

N_MARK == <<"N">>
S_For == <<"F", "o", "r">>
S_Item == <<"I", "t", "e", "m">>
S_Request == <<"R", "e", "q", "u", "e", "s", "t">>
S_Response == <<"R", "e", "s", "p", "o", "n", "s", "e">>
S_NestedModel == <<"N", "e", "s", "t", "e", "d", "M", "o", "d", "e", "l">>
S_AgentKitBaseModel ==
    <<"A", "g", "e", "n", "t", "K", "i", "t", "B", "a", "s", "e",
      "M", "o", "d", "e", "l">>

\* The suffixes _strip_generic_suffix tries, in the order it tries them.
GenericSuffixes ==
    << <<"C", "o", "n", "f", "i", "g", "u", "r", "a", "t", "i", "o", "n">>,
       <<"C", "o", "n", "f", "i", "g">>,
       <<"I", "n", "f", "o">>,
       <<"L", "i", "s", "t">>,
       <<"I", "t", "e", "m">>,
       <<"I", "t", "e", "m", "s">> >>

T_str == <<"s", "t", "r">>
T_int == <<"i", "n", "t">>
T_float == <<"f", "l", "o", "a", "t">>
T_bool == <<"b", "o", "o", "l">>
T_dict == <<"d", "i", "c", "t">>
T_list == <<"l", "i", "s", "t">>

\* TypeMapper.TYPE_MAPPING and TypeMapper.get_python_type.
get_python_type(type_id) ==
    CASE type_id = 1 -> T_str
      [] type_id = 2 -> T_int
      [] type_id = 3 -> T_float
      [] type_id = 4 -> T_int
      [] type_id = 5 -> T_float
      [] type_id = 6 -> T_bool
      [] type_id = 7 -> T_dict
      [] type_id = 8 -> T_list
      [] OTHER -> T_str

(***************************************************************************)
(* parse_field_path                                                        *)
(***************************************************************************)

\* The parts of a path that are not the marker, in order.
RECURSIVE CleanParts(_)
CleanParts(parts) ==
    IF parts = <<>> THEN <<>>
    ELSE IF parts[1] # N_MARK THEN <<parts[1]>> \o CleanParts(Tail(parts))
    ELSE CleanParts(Tail(parts))

\* parse_field_path without the test for a trailing marker: is_simple_array
\* is never set.
parse_field_path_no_simple_array(field_name) ==
    LET parts == Split(field_name)
        is_array_item ==
            IF Len(parts) > 1
            THEN \E i \in 1..(Len(parts) - 1) : parts[i] = N_MARK
            ELSE FALSE
        clean_parts == CleanParts(parts)
    IN  IF Len(clean_parts) = 1
        THEN [raised |-> FALSE, path_parts |-> <<>>,
              final_name |-> clean_parts[1],
              is_array_item |-> FALSE, is_simple_array |-> FALSE]
        ELSE IF clean_parts = <<>>
        THEN [raised |-> TRUE, path_parts |-> <<>>, final_name |-> <<>>,
              is_array_item |-> is_array_item, is_simple_array |-> FALSE]
        ELSE [raised |-> FALSE,
              path_parts |-> Prefix(clean_parts, Len(clean_parts) - 1),
              final_name |-> clean_parts[Len(clean_parts)],
              is_array_item |-> is_array_item, is_simple_array |-> FALSE]

\* parse_field_path(field_name).  raised is TRUE where the code raises
\* IndexError: no part is left once the markers are removed, and
\* clean_parts[-1] does not exist.
parse_field_path(field_name) ==
    LET parts == Split(field_name)
        is_simple_array == Len(parts) >= 2 /\ parts[Len(parts)] = N_MARK
        is_array_item ==
            IF Len(parts) > 1
            THEN \E i \in 1..(Len(parts) - 1) : parts[i] = N_MARK
            ELSE FALSE
        clean_parts == CleanParts(parts)
    IN  IF Len(clean_parts) = 1
        THEN [raised |-> FALSE, path_parts |-> <<>>,
              final_name |-> clean_parts[1],
              is_array_item |-> FALSE, is_simple_array |-> FALSE]
        ELSE IF clean_parts = <<>>
        THEN [raised |-> TRUE, path_parts |-> <<>>, final_name |-> <<>>,
              is_array_item |-> is_array_item,
              is_simple_array |-> is_simple_array]
        ELSE [raised |-> FALSE,
              path_parts |-> Prefix(clean_parts, Len(clean_parts) - 1),
              final_name |-> clean_parts[Len(clean_parts)],
              is_array_item |-> is_array_item,
              is_simple_array |-> is_simple_array]

(***************************************************************************)
(* to_snake_case                                                           *)
(***************************************************************************)

\* The end j of a match of ([A-Z]+)([A-Z][a-z]) that starts at i, or 0:
\* name[i..j-2] is the greedy group 1, name[j-1] the upper case letter and
\* name[j] the lower case letter of group 2.
RECURSIVE AcronymMatchEnd(_, _, _)
AcronymMatchEnd(name, i, k) ==
    \* k walks the run of upper case letters that starts at i.
    IF k > Len(name) \/ ~IsUpper(name[i]) THEN 0
    ELSE IF IsUpper(name[k]) THEN AcronymMatchEnd(name, i, k + 1)
    ELSE IF IsLower(name[k]) /\ k - i >= 2 THEN k
    ELSE 0

\* re.sub(r"([A-Z]+)([A-Z][a-z])", r"\1_\2", name), scanning from i.
RECURSIVE SubAcronym(_, _)
SubAcronym(name, i) ==
    IF i > Len(name) THEN <<>>
    ELSE LET j == AcronymMatchEnd(name, i, i)
         IN  IF j > 0
             THEN SubSeq(name, i, j - 2) \o <<"_">> \o SubSeq(name, j - 1, j)
                  \o SubAcronym(name, j + 1)
             ELSE <<name[i]>> \o SubAcronym(name, i + 1)

\* re.sub(r"([a-z0-9])([A-Z])", r"\1_\2", name), scanning from i.
RECURSIVE SubCamel(_, _)
SubCamel(name, i) ==
    IF i > Len(name) THEN <<>>
    ELSE IF /\ i < Len(name)
            /\ (IsLower(name[i]) \/ IsDigit(name[i]))
            /\ IsUpper(name[i + 1])
    THEN <<name[i], "_", name[i + 1]>> \o SubCamel(name, i + 2)
    ELSE <<name[i]>> \o SubCamel(name, i + 1)

\* The first index >= i of name that is not an underscore.
RECURSIVE SkipUnderscores(_, _)
SkipUnderscores(name, i) ==
    IF i <= Len(name) /\ name[i] = "_" THEN SkipUnderscores(name, i + 1)
    ELSE i

\* re.sub(r"__+", "_", name), scanning from i.
RECURSIVE SubUnderscores(_, _)
SubUnderscores(name, i) ==
    IF i > Len(name) THEN <<>>
    ELSE IF i < Len(name) /\ name[i] = "_" /\ name[i + 1] = "_"
    THEN <<"_">> \o SubUnderscores(name, SkipUnderscores(name, i))
    ELSE <<name[i]>> \o SubUnderscores(name, i + 1)

\* to_snake_case without the substitution of runs of underscores.
to_snake_case_keep_runs(name) ==
    IF name = <<>> THEN name
    ELSE Lower(SubCamel(SubAcronym(name, 1), 1))

to_snake_case(name) ==
    IF name = <<>> THEN name
    ELSE LET step_one == SubAcronym(name, 1)
             step_two == SubCamel(step_one, 1)
         IN  Lower(SubUnderscores(step_two, 1))

(***************************************************************************)
(* Class names                                                             *)
(***************************************************************************)

\* The while loop of qualify_model_name: the first candidate, counting from
\* index, that is not in generated_class_names.
RECURSIVE FirstUnused(_, _, _, _)
FirstUnused(stem, candidate, index, names) ==
    IF candidate \in names
    THEN FirstUnused(stem, stem \o DecStr(index), index + 1, names)
    ELSE candidate

\* qualify_model_name without its last statement but one: the chosen name
\* is returned and not added to generated_class_names.
qualify_model_name_unregistered(base_name, action, names) ==
    [name |-> FirstUnused(base_name \o S_For \o action,
                          base_name \o S_For \o action, 2, names),
     names |-> names]

\* qualify_model_name(base_name, action) on a generator whose
\* generated_class_names is names: the name returned and the registry left.
qualify_model_name(base_name, action, names) ==
    LET stem == base_name \o S_For \o action
        candidate == FirstUnused(stem, stem, 2, names)
    IN  [name |-> candidate, names |-> names \cup {candidate}]

\* The for loop of _strip_generic_suffix, from the i-th suffix on.
RECURSIVE StripFrom(_, _)
StripFrom(name, i) ==
    IF i > Len(GenericSuffixes) THEN name
    ELSE IF EndsWith(name, GenericSuffixes[i])
            /\ Len(name) > Len(GenericSuffixes[i])
    THEN SubSeq(name, 1, Len(name) - Len(GenericSuffixes[i]))
    ELSE StripFrom(name, i + 1)

strip_generic_suffix(name) == StripFrom(name, 1)

\* [_strip_generic_suffix(p) for p in parts if p]
RECURSIVE StrippedParts(_)
StrippedParts(parts) ==
    IF parts = <<>> THEN <<>>
    ELSE IF parts[1] # <<>>
    THEN <<strip_generic_suffix(parts[1])>> \o StrippedParts(Tail(parts))
    ELSE StrippedParts(Tail(parts))

build_nested_base_name(path, is_array_object) ==
    LET parts == StrippedParts(Split(path))
        core == IF parts = <<>> THEN S_NestedModel
                ELSE IF Len(parts) = 1 THEN parts[1]
                ELSE Concat(parts)
    IN  IF is_array_object THEN core \o S_Item ELSE core

(***************************************************************************)
(* Fields                                                                  *)
(***************************************************************************)

\* FieldInfo(name, python_name, type_str, is_required, is_array).  The
\* description is stored by the code and never emitted; it is left out.
FieldInfo(name, python_name, type_str, is_required, is_array) ==
    [name |-> name, python_name |-> python_name, type_str |-> type_str,
     is_required |-> is_required, is_array |-> is_array]

\* [f for f in fields if f.python_name == python_name] is not empty.
Existing(fields, python_name) ==
    \E i \in 1..Len(fields) : fields[i].python_name = python_name

\* FieldInfo.to_field_definition: the annotation as a term, the default and
\* the alias of the emitted line.
to_field_definition(f) ==
    LET inner == IF f.is_array THEN <<"list", f.type_str>>
                 ELSE <<"plain", f.type_str>>
    IN  [python_name |-> f.python_name,
         final_type |-> IF f.is_required THEN inner
                        ELSE <<"Optional", inner>>,
         default_value |-> IF f.is_required THEN "..." ELSE "default=None",
         alias |-> f.name]

\* NestedModel.to_class_definition: the class line and one line per field
\* (an empty sequence of lines stands for "pass").
to_class_definition(name, fields, base_class_name) ==
    [class |-> name, base |-> base_class_name,
     lines |-> [i \in 1..Len(fields) |-> to_field_definition(fields[i])]]

(***************************************************************************)
(* create_nested_structure                                                 *)
(*                                                                         *)
(* A request row is [HasName, Name, Type, IsRequired]: HasName is FALSE    *)
(* for a row with no "Name" key.  A dict is a function; where the code     *)
(* iterates a dict, the model keeps its keys in insertion order.           *)
(***************************************************************************)

InSeq(x, s) == \E i \in 1..Len(s) : s[i] = x

\* What the first loop raises, if anything: param["Name"] on a row without
\* the key is a KeyError, parse_field_path on a path of markers only an
\* IndexError.  The first row that raises decides.
RECURSIVE FirstRaise(_, _)
FirstRaise(parameters, i) ==
    IF i > Len(parameters) THEN "none"
    ELSE IF ~parameters[i].HasName THEN "KeyError"
    ELSE IF parse_field_path(parameters[i].Name).raised THEN "IndexError"
    ELSE FirstRaise(parameters, i + 1)

\* The first loop, from row i on: the keys of array_fields in insertion
\* order, the keys of normal_fields, and nested_object_paths.  The values of
\* the two defaultdicts (sets of leaf names) are never read for their
\* content and are left out.
RECURSIVE CollectPaths(_, _, _)
CollectPaths(parameters, i, acc) ==
    IF i > Len(parameters) THEN acc
    ELSE
      LET p == parse_field_path(parameters[i].Name)
          path_str == Join(p.path_parts)
          next ==
            IF Len(p.path_parts) > 0
            THEN [array_fields |->
                    IF p.is_array_item /\ ~InSeq(path_str, acc.array_fields)
                    THEN Append(acc.array_fields, path_str)
                    ELSE acc.array_fields,
                  normal_fields |->
                    IF p.is_array_item THEN acc.normal_fields
                    ELSE acc.normal_fields \cup {path_str},
                  nested_object_paths |->
                    acc.nested_object_paths \cup
                      {Join(Prefix(p.path_parts, k)) :
                         k \in 1..Len(p.path_parts)}]
            ELSE acc
      IN  CollectPaths(parameters, i + 1, next)

\* array_objects: the keys of array_fields that are not keys of
\* normal_fields, in the order of array_fields.
RECURSIVE ArrayObjects(_, _)
ArrayObjects(array_fields, normal_fields) ==
    IF array_fields = <<>> THEN <<>>
    ELSE IF array_fields[1] \notin normal_fields
    THEN <<array_fields[1]>> \o ArrayObjects(Tail(array_fields), normal_fields)
    ELSE ArrayObjects(Tail(array_fields), normal_fields)

\* One model created for path under base_name: the builder state b holds the
\* registry (names), path_class_names, the fields of each model of
\* path_models (path_fields) and the keys of class_models in insertion
\* order, each named by its path (order).
AddModel(b, path, base_name, action) ==
    LET q == qualify_model_name(base_name, action, b.names)
    IN  [names |-> q.names,
         path_class_names |-> (path :> q.name) @@ b.path_class_names,
         path_fields |-> (path :> <<>>) @@ b.path_fields,
         order |-> Append(b.order, path)]

\* The loop over sorted(nested_object_paths) that creates the models of the
\* paths that are not array objects.
RECURSIVE CreatePlainModels(_, _, _, _)
CreatePlainModels(paths, array_objects, action, b) ==
    IF paths = <<>> THEN b
    ELSE CreatePlainModels(Tail(paths), array_objects, action,
           IF ~InSeq(paths[1], array_objects)
           THEN AddModel(b, paths[1],
                         build_nested_base_name(paths[1], FALSE), action)
           ELSE b)

\* The loop over array_objects that creates the Item models.
RECURSIVE CreateItemModels(_, _, _, _)
CreateItemModels(array_paths, nested_object_paths, action, b) ==
    IF array_paths = <<>> THEN b
    ELSE CreateItemModels(Tail(array_paths), nested_object_paths, action,
           IF Len(Split(array_paths[1])) = 1
              \/ array_paths[1] \in nested_object_paths
           THEN AddModel(b, array_paths[1],
                         build_nested_base_name(array_paths[1], TRUE), action)
           ELSE b)

\* The loop over sorted(nested_object_paths) that gives each parent model a
\* field referring to its child model.
RECURSIVE WireChildren(_, _, _)
WireChildren(paths, array_objects, b) ==
    IF paths = <<>> THEN b
    ELSE
      LET full_path == paths[1]
          parts == Split(full_path)
          parent_path == Join(Prefix(parts, Len(parts) - 1))
          child_name == parts[Len(parts)]
          child_python_name == to_snake_case(child_name)
          child_type ==
            IF full_path \in DOMAIN b.path_class_names
            THEN b.path_class_names[full_path] ELSE child_name
          field == FieldInfo(child_name, child_python_name, child_type,
                             FALSE, InSeq(full_path, array_objects))
          skip == \/ Len(parts) < 2
                  \/ parent_path \notin DOMAIN b.path_fields
                  \/ Existing(b.path_fields[parent_path], child_python_name)
      IN  WireChildren(Tail(paths), array_objects,
            IF skip THEN b
            ELSE [b EXCEPT !.path_fields[parent_path] = Append(@, field)])

\* One entry of root_refs, a dict in insertion order: its key (ref_name) and
\* its value.
RootRef(ref_name, type, is_array) ==
    [ref_name |-> ref_name, type |-> type, is_array |-> is_array,
     is_required |-> FALSE]

HasRootRef(root_refs, ref_name) ==
    \E i \in 1..Len(root_refs) : root_refs[i].ref_name = ref_name

\* The body of the second loop for one row, given what the loop computes
\* first: the parsed path p, python_type, is_required, python_name and the
\* joined path_parts (path).  f holds the fields of the models
\* (path_fields), of the root (root) and root_refs.
FillParsed(p, python_type, is_required, python_name, path, path_class_names, f) ==
    IF Len(p.path_parts) = 0
    THEN [f EXCEPT !.root = Append(@,
            FieldInfo(p.final_name, python_name, python_type,
                      is_required, FALSE))]
    ELSE IF p.is_simple_array
    THEN \* the branch "elif len(path_parts) == 0" below "if parent_path in
         \* path_models" is dead: path_parts is not empty here.
         IF path \in DOMAIN f.path_fields
            /\ ~Existing(f.path_fields[path], python_name)
         THEN [f EXCEPT !.path_fields[path] = Append(@,
                 FieldInfo(p.final_name, python_name, python_type,
                           is_required, TRUE))]
         ELSE f
    ELSE IF p.is_array_item
    THEN IF path \in DOMAIN f.path_fields
         THEN [f EXCEPT
                 !.path_fields[path] = Append(@,
                    FieldInfo(p.final_name, python_name, python_type,
                              is_required, FALSE)),
                 !.root_refs =
                    IF Len(p.path_parts) = 1
                       /\ ~HasRootRef(f.root_refs, p.path_parts[1])
                    THEN Append(@, RootRef(p.path_parts[1],
                           IF path \in DOMAIN path_class_names
                           THEN path_class_names[path]
                           ELSE p.path_parts[1] \o S_Item,
                           TRUE))
                    ELSE @]
         ELSE f
    ELSE [f EXCEPT
            !.path_fields =
               IF path \in DOMAIN f.path_fields
               THEN [@ EXCEPT ![path] = Append(@,
                       FieldInfo(p.final_name, python_name, python_type,
                                 is_required, FALSE))]
               ELSE @,
            !.root_refs =
               IF ~HasRootRef(f.root_refs, p.path_parts[1])
               THEN Append(@, RootRef(p.path_parts[1],
                      IF p.path_parts[1] \in DOMAIN path_class_names
                      THEN path_class_names[p.path_parts[1]]
                      ELSE p.path_parts[1],
                      FALSE))
               ELSE @]

\* The values the second loop computes from a parsed row before it branches.
FillWith(param, p, path_class_names, f) ==
    FillParsed(p, get_python_type(param.Type), param.IsRequired = 1,
               to_snake_case(p.final_name), Join(p.path_parts),
               path_class_names, f)

\* One iteration of the second loop, for one row.
FillRow(param, path_class_names, f) ==
    FillWith(param, parse_field_path(param.Name), path_class_names, f)

\* The second loop, from row i on.
RECURSIVE FillFields(_, _, _, _)
FillFields(parameters, i, path_class_names, f) ==
    IF i > Len(parameters) THEN f
    ELSE FillFields(parameters, i + 1, path_class_names,
                    FillRow(parameters[i], path_class_names, f))

\* The loop over root_refs.items() that adds the references of the root.
RECURSIVE AddRootRefs(_, _)
AddRootRefs(root_refs, root) ==
    IF root_refs = <<>> THEN root
    ELSE LET r == root_refs[1]
             python_name == to_snake_case(r.ref_name)
         IN  AddRootRefs(Tail(root_refs),
               IF ~Existing(root, python_name)
               THEN Append(root, FieldInfo(r.ref_name, python_name, r.type,
                                           r.is_required, r.is_array))
               ELSE root)

EmptyDict == [x \in {} |-> x]

\* What create_nested_structure leaves when it returns: the fields of the
\* root it returns, nested_models (class_models, in insertion order) and
\* generated_class_names, and the locals path_class_names, array_objects and
\* nested_object_paths.  b is the builder state after the loop that wires
\* the children, f the result of the second loop.
BuildResult(c, array_objects, b, f) ==
    [raised |-> "none",
     root |-> AddRootRefs(f.root_refs, f.root),
     nested_models |->
       [i \in 1..Len(b.order) |->
          [name |-> b.path_class_names[b.order[i]],
           path |-> b.order[i],
           fields |-> f.path_fields[b.order[i]]]],
     names |-> b.names,
     path_class_names |-> b.path_class_names,
     array_objects |-> Range(array_objects),
     nested_object_paths |-> c.nested_object_paths]

\* The second loop and the root references, on the models b.
BuildFields(parameters, c, array_objects, b) ==
    BuildResult(c, array_objects, b,
      FillFields(parameters, 1, b.path_class_names,
        [path_fields |-> b.path_fields, root |-> <<>>, root_refs |-> <<>>]))

\* The two loops that create the models and the loop that wires the
\* children, in the order of the code.
BuildModels(parameters, action, names, c, array_objects, sorted_paths) ==
    BuildFields(parameters, c, array_objects,
      WireChildren(sorted_paths, array_objects,
        CreateItemModels(array_objects, c.nested_object_paths, action,
          CreatePlainModels(sorted_paths, array_objects, action,
            [names |-> names, path_class_names |-> EmptyDict,
             path_fields |-> EmptyDict, order |-> <<>>]))))

\* Everything after the first loop, whose result is c.
BuildFrom(parameters, action, names, c) ==
    BuildModels(parameters, action, names, c,
                ArrayObjects(c.array_fields, c.normal_fields),
                Sorted(c.nested_object_paths))

\* create_nested_structure(parameters, action) on a generator whose
\* generated_class_names is names.  raised is what the call raised ("none"
\* when it returned); a call that raises does so in the first loop, before
\* it has changed anything.
create_nested_structure(parameters, action, names) ==
    IF FirstRaise(parameters, 1) # "none"
    THEN [raised |-> FirstRaise(parameters, 1), root |-> <<>>,
          nested_models |-> <<>>, names |-> names,
          path_class_names |-> EmptyDict,
          array_objects |-> {}, nested_object_paths |-> {}]
    ELSE BuildFrom(parameters, action, names,
           CollectPaths(parameters, 1,
             [array_fields |-> <<>>, normal_fields |-> {},
              nested_object_paths |-> {}]))

(***************************************************************************)
(* The generator's methods.  names is generated_class_names before the     *)
(* call; each result holds the registry the call leaves.                   *)
(***************************************************************************)

\* A registration that forgets the names registered before.
register_class_name_forgetting(name, names) == {name}

register_class_name(name, names) == names \cup {name}

\* The class definitions generate_request_model returns: the nested
\* models in the order of nested_models, then the root.
RequestSections(class_name, built, base_class_name) ==
    [i \in 1..Len(built.nested_models) |->
       to_class_definition(built.nested_models[i].name,
                           built.nested_models[i].fields, base_class_name)]
    \o <<to_class_definition(class_name, built.root, base_class_name)>>

\* generate_request_model once create_nested_structure is done (built).
RequestResult(class_name, built, models, base_class_name) ==
    [raised |-> built.raised,
     class_name |-> class_name,
     built |-> built,
     names |-> built.names,
     nested_models |->
       IF built.raised = "none"
       THEN [i \in 1..Len(built.nested_models) |->
               [name |-> built.nested_models[i].name,
                fields |-> built.nested_models[i].fields]]
       ELSE models,
     sections |->
       IF built.raised = "none"
       THEN RequestSections(class_name, built, base_class_name)
       ELSE <<>>]

\* generate_request_model(action, parameters) on a generator whose
\* generated_class_names is names and whose nested_models is models: what the
\* call raised, the class definitions it returns (sections), and the
\* generated_class_names and nested_models it leaves.  built is the result
\* of its call of create_nested_structure.
generate_request_model(action, parameters, names, models, base_class_name) ==
    RequestResult(action \o S_Request,
      create_nested_structure(parameters, action,
        register_class_name(action \o S_Request, names)),
      models, base_class_name)

\* The annotation of a response field or of a DataType element: the
\* referenced type when the row has a $ref (ref is not empty), else the type
\* mapped from the type code; list[...] when is_array; Optional[...] when
\* not required.
flat_type(type_id, ref, is_array, is_required) ==
    LET python_type == IF ref # <<>> THEN ref ELSE get_python_type(type_id)
        inner == IF is_array THEN <<"list", python_type>>
                 ELSE <<"plain", python_type>>
    IN  IF is_required THEN inner ELSE <<"Optional", inner>>

\* The line generate_response_model emits for one response row
\* [HasName, Name, Type, IsArray, Ref]: param.get("Name", "") is the empty
\* string for a row with no "Name" key, and every field is optional.
response_line(param) ==
    [python_name |-> to_snake_case(IF param.HasName THEN param.Name ELSE <<>>),
     final_type |-> flat_type(param.Type, param.Ref, param.IsArray = 1, FALSE),
     default_value |-> "default=None",
     alias |-> IF param.HasName THEN param.Name ELSE <<>>]

\* generate_response_model(action, parameters): nothing is emitted and the
\* registry is left as it is when <action>Response is registered already.
generate_response_model(action, parameters, names, base_class_name) ==
    IF action \o S_Response \in names
    THEN [names |-> names, sections |-> <<>>]
    ELSE [names |-> register_class_name(action \o S_Response, names),
          sections |->
            <<[class |-> action \o S_Response, base |-> base_class_name,
               lines |-> [i \in 1..Len(parameters) |->
                            response_line(parameters[i])]]>>]

\* The line generate_datatype_models emits for one element
\* [HasName, ElementName, ElementType, IsRequired, IsArray, Ref].
element_line(element) ==
    [python_name |->
       to_snake_case(IF element.HasName THEN element.ElementName ELSE <<>>),
     final_type |-> flat_type(element.ElementType, element.Ref,
                              element.IsArray = 1, element.IsRequired = 1),
     default_value |-> IF element.IsRequired = 1 THEN "..."
                       ELSE "default=None",
     alias |-> IF element.HasName THEN element.ElementName ELSE <<>>]

\* generate_datatype_models(data_types), a struct being
\* [StructName, Element]: a struct with an empty name, with no element or
\* with a registered name is skipped.  The blank lines between the classes
\* are left out.
RECURSIVE generate_datatype_models(_, _, _)
generate_datatype_models(data_types, names, base_class_name) ==
    IF data_types = <<>> THEN [names |-> names, sections |-> <<>>]
    ELSE IF \/ data_types[1].StructName = <<>>
            \/ data_types[1].Element = <<>>
            \/ data_types[1].StructName \in names
    THEN generate_datatype_models(Tail(data_types), names, base_class_name)
    ELSE [names |->
            generate_datatype_models(Tail(data_types),
              register_class_name(data_types[1].StructName, names),
              base_class_name).names,
          sections |->
            <<[class |-> data_types[1].StructName, base |-> base_class_name,
               lines |-> [i \in 1..Len(data_types[1].Element) |->
                            element_line(data_types[1].Element[i])]]>>
            \o generate_datatype_models(Tail(data_types),
                 register_class_name(data_types[1].StructName, names),
                 base_class_name).sections]

(***************************************************************************)
(* State                                                                   *)
(***************************************************************************)

VARIABLES
    generated_class_names,  \* APIStructGenerator.generated_class_names
    nested_models,          \* APIStructGenerator.nested_models, in dict order
    types_output,           \* the class definitions generate_from_api_json
                            \* has appended to lines, in order
    pc,                     \* where the caller of the generator is
    history                 \* the calls made so far, with their results

vars == <<generated_class_names, nested_models, types_output, pc, history>>

base_model_name == S_AgentKitBaseModel

\* APIStructGenerator.__init__ with the default base_model_name.
NewGenerator ==
    /\ generated_class_names = {base_model_name}
    /\ nested_models = <<>>
    /\ types_output = <<>>
    /\ history = <<>>

Last(s) == s[Len(s)]

\* The calls of history made by operation op.
Calls(op) == {i \in 1..Len(history) : history[i].op = op}

(***************************************************************************)
(* SpecParse: parse_field_path applied to one dotted path                  *)
(***************************************************************************)

\* The most segments of a path given to parse_field_path.
MaxSegs == 4

\* The segments the paths are made of: the marker and two ordinary names.
Segments == {N_MARK, <<"A">>, <<"B", "c">>}

SegmentSeqs == UNION {[1..n -> Segments] : n \in 1..MaxSegs}

InitParse ==
    /\ NewGenerator
    /\ pc = "parse"

ParseFieldPath ==
    /\ pc = "parse"
    /\ \E segs \in SegmentSeqs :
         history' = <<[op |-> "parse_field_path",
                       segments |-> segs,
                       field_name |-> Join(segs),
                       result |-> parse_field_path(Join(segs))]>>
    /\ pc' = "done"
    /\ UNCHANGED <<generated_class_names, nested_models, types_output>>

NextParse == ParseFieldPath

SpecParse == InitParse /\ [][NextParse]_vars

(***************************************************************************)
(* SpecQualify: qualify_model_name and register_class_name called in any   *)
(* order on one generator                                                  *)
(***************************************************************************)

\* The most calls made on the generator.
MaxCalls == 3

S_A == <<"A">>
S_Envs == <<"E", "n", "v", "s">>

QualifyBases == {S_Envs, S_Envs \o S_Item}
QualifyActions == {S_A, S_A \o <<"2">>}
RegisterNames ==
    {S_Envs \o S_For \o S_A,
     S_Envs \o S_For \o S_A \o <<"2">>,
     S_Envs \o S_For \o S_A \o <<"3">>,
     S_A \o S_Request}

InitQualify ==
    /\ NewGenerator
    /\ pc = "calls"

RegisterClassName ==
    /\ pc = "calls"
    /\ Len(history) < MaxCalls
    /\ \E name \in RegisterNames :
         /\ generated_class_names' =
               register_class_name(name, generated_class_names)
         /\ history' = Append(history,
               [op |-> "register_class_name", name |-> name,
                before |-> generated_class_names,
                after |-> register_class_name(name, generated_class_names)])
    /\ UNCHANGED <<nested_models, types_output, pc>>

QualifyModelName ==
    /\ pc = "calls"
    /\ Len(history) < MaxCalls
    /\ \E base_name \in QualifyBases, action \in QualifyActions :
         LET q == qualify_model_name(base_name, action, generated_class_names)
         IN  /\ generated_class_names' = q.names
             /\ history' = Append(history,
                   [op |-> "qualify_model_name", base_name |-> base_name,
                    action |-> action, before |-> generated_class_names,
                    result |-> q.name, after |-> q.names])
    /\ UNCHANGED <<nested_models, types_output, pc>>

NextQualify == RegisterClassName \/ QualifyModelName

SpecQualify == InitQualify /\ [][NextQualify]_vars

(***************************************************************************)
(* SpecSnake: to_snake_case applied to a name, then to its own result      *)
(***************************************************************************)

\* The most characters of a name given to to_snake_case.
MaxName == 4

\* The characters the names are made of: two uppercase letters, a lowercase
\* letter, a digit and the underscore.
SnakeChars == {"A", "B", "b", "1", "_"}

SnakeNames == UNION {[1..n -> SnakeChars] : n \in 0..MaxName}

InitSnake ==
    /\ NewGenerator
    /\ pc = "snake"

ToSnakeCase ==
    /\ pc = "snake"
    /\ \E name \in SnakeNames :
         history' = <<[op |-> "to_snake_case", name |-> name,
                       result |-> to_snake_case(name)]>>
    /\ pc' = "again"
    /\ UNCHANGED <<generated_class_names, nested_models, types_output>>

ToSnakeCaseAgain ==
    /\ pc = "again"
    /\ history' = Append(history,
          [op |-> "to_snake_case", name |-> Last(history).result,
           result |-> to_snake_case(Last(history).result)])
    /\ pc' = "done"
    /\ UNCHANGED <<generated_class_names, nested_models, types_output>>

NextSnake == ToSnakeCase \/ ToSnakeCaseAgain

SpecSnake == InitSnake /\ [][NextSnake]_vars

(***************************************************************************)
(* SpecBuild: generate_request_model called once on a new generator, with  *)
(* any list of at most MaxRows request rows                                *)
(***************************************************************************)

\* The most rows of a request.
MaxRows == 3

S_CreateAgent == <<"C", "r", "e", "a", "t", "e", "A", "g", "e", "n", "t">>
S_Name == <<"N", "a", "m", "e">>
S_NAME == <<"N", "A", "M", "E">>
S_Key == <<"K", "e", "y">>
S_Value == <<"V", "a", "l", "u", "e">>
S_Tags == <<"T", "a", "g", "s">>
S_Auth == <<"A", "u", "t", "h">>
S_Jwt == <<"J", "w", "t">>
S_JWT == <<"J", "W", "T">>
S_Allowed == <<"A", "l", "l", "o", "w", "e", "d">>
S_EnvsList == S_Envs \o <<"L", "i", "s", "t">>

\* A request row with the path made of segs.
Row(segs, type, is_required) ==
    [HasName |-> TRUE, Name |-> Join(segs), Type |-> type,
     IsRequired |-> is_required]

\* The rows a request is made of: every shape of path (root scalar, plain
\* nested, array item, simple array, marker after a single name, marker both
\* inside and at the end, a path of markers only), names that normalize
\* to the same identifier, and names that yield the same class base name.
BuildRows ==
    {Row(<<S_Name>>, 1, 1),
     Row(<<S_NAME>>, 2, 0),
     Row(<<S_Envs>>, 8, 0),
     Row(<<S_Envs, N_MARK, S_Key>>, 1, 0),
     Row(<<S_Envs, N_MARK, S_Value>>, 1, 1),
     Row(<<S_Envs, S_Key>>, 1, 0),
     Row(<<S_Envs, S_Tags, N_MARK>>, 1, 0),
     Row(<<S_Envs, N_MARK, S_Tags, N_MARK>>, 1, 0),
     Row(<<S_EnvsList, N_MARK, S_Key>>, 1, 0),
     Row(<<S_Tags, N_MARK>>, 1, 0),
     Row(<<S_Auth, S_Jwt, S_Allowed, N_MARK>>, 1, 0),
     Row(<<S_Auth, S_Jwt, S_Key>>, 1, 1),
     Row(<<S_Auth, S_JWT, S_Key>>, 1, 0),
     Row(<<S_Auth, N_MARK, S_Jwt, S_Key>>, 6, 0),
     Row(<<S_Auth, S_Jwt>>, 7, 0),
     Row(<<N_MARK>>, 1, 0)}

BuildRowLists == UNION {[1..n -> BuildRows] : n \in 0..MaxRows}

BuildActions == {S_CreateAgent}

InitBuild ==
    /\ NewGenerator
    /\ pc = "build"

\* The generator after generate_request_model(action, parameters) has
\* ended with r.
AfterRequest(action, parameters, r) ==
    /\ generated_class_names' = r.names
    /\ nested_models' = r.nested_models
    /\ history' = Append(history,
          [op |-> "generate_request_model",
           action |-> action, parameters |-> parameters,
           before |-> generated_class_names,
           raised |-> r.raised,
           class_name |-> r.class_name,
           built |-> r.built,
           sections |-> r.sections])

GenerateRequestModel ==
    /\ pc = "build"
    /\ \E action \in BuildActions, parameters \in BuildRowLists :
         AfterRequest(action, parameters,
           generate_request_model(action, parameters, generated_class_names,
                                  nested_models, base_model_name))
    /\ pc' = "done"
    /\ UNCHANGED types_output

NextBuild == GenerateRequestModel

SpecBuild == InitBuild /\ [][NextBuild]_vars

(***************************************************************************)
(* Spec: one run of generate_from_api_json on a new generator.  The run    *)
(* emits the base class, generates the DataType section, then handles the  *)
(* entries of ApiList one after the other.                                 *)
(***************************************************************************)

\* The most entries of ApiList.
MaxApis == 2

S_GetAgent == <<"G", "e", "t", "A", "g", "e", "n", "t">>
S_Env == <<"E", "n", "v">>
S_Id == <<"I", "d">>
S_BaseModel == <<"B", "a", "s", "e", "M", "o", "d", "e", "l">>

Element(name, type, is_required, is_array, ref) ==
    [HasName |-> TRUE, ElementName |-> name, ElementType |-> type,
     IsRequired |-> is_required, IsArray |-> is_array, Ref |-> ref]

Struct(name, elements) == [StructName |-> name, Element |-> elements]

ResponseRow(name, type, is_array, ref) ==
    [HasName |-> TRUE, Name |-> name, Type |-> type, IsArray |-> is_array,
     Ref |-> ref]

\* The DataType sections of the schemas: none, one struct, a struct with no
\* element, the same struct name twice, a struct named as the request
\* type of an action, and a struct with an element that has no ElementName.
RunDataTypes ==
    {<<>>,
     <<Struct(S_Env, <<Element(S_Key, 1, 1, 0, <<>>)>>)>>,
     <<Struct(S_Env, <<>>)>>,
     <<Struct(S_Env, <<Element(S_Key, 1, 1, 0, <<>>)>>),
       Struct(S_Env, <<Element(S_Value, 2, 0, 1, <<>>)>>)>>,
     <<Struct(S_CreateAgent \o S_Request,
              <<Element(S_Name, 1, 0, 0, <<>>)>>)>>,
     <<Struct(S_Env, <<[HasName |-> FALSE, ElementName |-> <<>>,
                        ElementType |-> 1, IsRequired |-> 0, IsArray |-> 0,
                        Ref |-> <<>>]>>)>>}

RunActions == {S_CreateAgent, S_GetAgent}

\* The RequestParameters of the entries of ApiList; the last has a row with
\* no Name.
RunRequests ==
    {<<>>,
     <<Row(<<S_Name>>, 1, 1)>>,
     <<Row(<<S_Envs, N_MARK, S_Key>>, 1, 0)>>,
     <<Row(<<S_Envs, N_MARK, S_Key>>, 1, 0), Row(<<S_Envs, S_Key>>, 1, 0)>>,
     <<Row(<<S_Name>>, 1, 1),
       [HasName |-> FALSE, Name |-> <<>>, Type |-> 1, IsRequired |-> 0]>>}

\* The ResponseParameters of the entries of ApiList; the last has a row with
\* no Name.
RunResponses ==
    {<<>>,
     <<ResponseRow(S_Id, 1, 0, <<>>)>>,
     <<ResponseRow(S_Envs, 7, 1, S_Env)>>,
     <<[HasName |-> FALSE, Name |-> <<>>, Type |-> 1, IsArray |-> 0,
        Ref |-> <<>>]>>}

Init ==
    /\ NewGenerator
    /\ pc = "start"

\* generate_from_api_json up to its loop: the file header and the base
\* class, then the DataType section; "if data_types" skips an empty one.
BeginRun ==
    /\ pc = "start"
    /\ \E data_types \in RunDataTypes :
         LET d == generate_datatype_models(data_types, generated_class_names,
                                           base_model_name)
         IN  /\ generated_class_names' = d.names
             /\ types_output' =
                   <<[class |-> base_model_name, base |-> S_BaseModel,
                      lines |-> <<>>]>> \o d.sections
             /\ history' = Append(history,
                   [op |-> "generate_datatype_models",
                    data_types |-> data_types,
                    before |-> generated_class_names, after |-> d.names,
                    sections |-> d.sections])
    /\ pc' = "apis"
    /\ UNCHANGED nested_models

\* One iteration of the loop over ApiList once the request part has ended
\* with q (q.raised = "skipped" when RequestParameters is empty): the
\* exception of the request part ends the run; otherwise the response part
\* follows, skipped when ResponseParameters is empty.
AfterApi(action, request_params, response_params, q) ==
    LET raised == q.raised \notin {"none", "skipped"}
        p == IF raised \/ response_params = <<>>
             THEN [names |-> q.names, sections |-> <<>>]
             ELSE generate_response_model(action, response_params, q.names,
                                          base_model_name)
    IN  /\ generated_class_names' = p.names
        /\ nested_models' = q.nested_models
        /\ types_output' = types_output \o q.sections \o p.sections
        /\ pc' = IF raised THEN "raised" ELSE "apis"
        /\ history' = Append(history,
              [op |-> "api", action |-> action,
               request_params |-> request_params,
               response_params |-> response_params,
               before |-> generated_class_names, mid |-> q.names,
               after |-> p.names, raised |-> q.raised,
               request_sections |-> q.sections,
               response_sections |-> p.sections])

ProcessApi ==
    /\ pc = "apis"
    /\ Cardinality(Calls("api")) < MaxApis
    /\ \E action \in RunActions, request_params \in RunRequests,
          response_params \in RunResponses :
         AfterApi(action, request_params, response_params,
           IF request_params = <<>>
           THEN [raised |-> "skipped", names |-> generated_class_names,
                 nested_models |-> nested_models, sections |-> <<>>]
           ELSE generate_request_model(action, request_params,
                  generated_class_names, nested_models, base_model_name))

\* The loop is over: generate_from_api_json returns the text.
ReturnTypes ==
    /\ pc = "apis"
    /\ pc' = "returned"
    /\ UNCHANGED <<generated_class_names, nested_models, types_output,
                   history>>

Next == BeginRun \/ ProcessApi \/ ReturnTypes

Spec == Init /\ [][Next]_vars

(***************************************************************************)
(* generate_from_api_json and generate_client_module as functions of the   *)
(* schema.  A schema is [DataType, ApiList]; an entry of ApiList is        *)
(* [Action, RequestParameters, ResponseParameters].                        *)
(***************************************************************************)

Api(action, request_params, response_params) ==
    [Action |-> action, RequestParameters |-> request_params,
     ResponseParameters |-> response_params]

Schema(data_types, api_list) == [DataType |-> data_types, ApiList |-> api_list]

\* The request part of one iteration of the loop over ApiList; raised is
\* "skipped" when RequestParameters is empty.
ApiRequest(api, names, models, base_class_name) ==
    IF api.RequestParameters = <<>>
    THEN [raised |-> "skipped", names |-> names, nested_models |-> models,
          sections |-> <<>>]
    ELSE generate_request_model(api.Action, api.RequestParameters, names,
                                models, base_class_name)

\* The response part of the iteration whose request part ended with q.
ApiResponse(api, q, base_class_name) ==
    IF q.raised \notin {"none", "skipped"} \/ api.ResponseParameters = <<>>
    THEN [names |-> q.names, sections |-> <<>>]
    ELSE generate_response_model(api.Action, api.ResponseParameters, q.names,
                                 base_class_name)

\* The iteration as a whole.
ApiResult(q, p) ==
    [raised |-> IF q.raised = "skipped" THEN "none" ELSE q.raised,
     names |-> p.names, nested_models |-> q.nested_models,
     sections |-> q.sections \o p.sections]

\* r followed by rest, the result of the remaining iterations.
ThenApis(r, rest) ==
    [raised |-> rest.raised, names |-> rest.names,
     nested_models |-> rest.nested_models,
     sections |-> r.sections \o rest.sections]

\* The loop over ApiList from the state r of the iterations done so far.
RECURSIVE RunApis(_, _, _)
RunApis(api_list, r, base_class_name) ==
    IF api_list = <<>> \/ r.raised # "none" THEN r
    ELSE ThenApis(r,
           RunApis(Tail(api_list),
             ApiResult(
               ApiRequest(api_list[1], r.names, r.nested_models,
                          base_class_name),
               ApiResponse(api_list[1],
                 ApiRequest(api_list[1], r.names, r.nested_models,
                            base_class_name),
                 base_class_name)),
             base_class_name))

\* The run once the DataType section has been generated (d).
AfterDataTypes(data, d, models, base_class_name) ==
    RunApis(data.ApiList,
            [raised |-> "none", names |-> d.names, nested_models |-> models,
             sections |-> <<[class |-> base_class_name, base |-> S_BaseModel,
                             lines |-> <<>>]>> \o d.sections],
            base_class_name)

\* generate_from_api_json(data) on a generator whose generated_class_names
\* is names and whose nested_models is models: what the run raised, the
\* class definitions of the text it returns and the state it leaves.
generate_from_api_json(data, names, models, base_class_name) ==
    AfterDataTypes(data,
      generate_datatype_models(data.DataType, names, base_class_name),
      models, base_class_name)

\* The entries of api_list that generate_client_module does not skip.
RECURSIVE ClientApis(_)
ClientApis(api_list) ==
    IF api_list = <<>> THEN <<>>
    ELSE IF api_list[1].Action = <<>> THEN ClientApis(Tail(api_list))
    ELSE <<api_list[1]>> \o ClientApis(Tail(api_list))

\* generate_client_module(data, ...): the empty text for an empty ApiList;
\* otherwise the names imported from the types module and, per action, the
\* method with its request and response types.
generate_client_module(data) ==
    IF data.ApiList = <<>>
    THEN [empty |-> TRUE, type_names |-> {}, methods |-> <<>>]
    ELSE [empty |-> FALSE,
          type_names |->
            UNION {{ClientApis(data.ApiList)[k].Action \o S_Request,
                    ClientApis(data.ApiList)[k].Action \o S_Response} :
                   k \in 1..Len(ClientApis(data.ApiList))},
          methods |->
            [k \in 1..Len(ClientApis(data.ApiList)) |->
               [method_name |->
                  to_snake_case(ClientApis(data.ApiList)[k].Action),
                api_action |-> ClientApis(data.ApiList)[k].Action,
                req_type |-> ClientApis(data.ApiList)[k].Action \o S_Request,
                resp_type |->
                  ClientApis(data.ApiList)[k].Action \o S_Response]]]

(***************************************************************************)
(* SpecMain: one execution of main.  history[1] holds the parsed arguments;*)
(* every file written and every exception raised is appended to history.   *)
(***************************************************************************)

\* The value of an optional argument that was not given.
None == <<"N", "o", "n", "e">>

S_Client == <<"C", "l", "i", "e", "n", "t">>
S_svc == <<"s", "v", "c">>
S_types == <<"t", "y", "p", "e", "s">>

\* The schemas main reads: no ApiList entry; one action with request and
\* response rows; an action with no request row; an action with no response
\* row; an entry with an empty Action; a request row without Name; two
\* actions with a DataType struct.
MainSchemas ==
    {Schema(<<>>, <<>>),
     Schema(<<>>, <<Api(S_GetAgent, <<Row(<<S_Name>>, 1, 1)>>,
                        <<ResponseRow(S_Id, 1, 0, <<>>)>>)>>),
     Schema(<<>>, <<Api(S_GetAgent, <<>>,
                        <<ResponseRow(S_Id, 1, 0, <<>>)>>)>>),
     Schema(<<>>, <<Api(S_GetAgent, <<Row(<<S_Name>>, 1, 1)>>, <<>>)>>),
     Schema(<<>>, <<Api(<<>>, <<Row(<<S_Name>>, 1, 1)>>,
                        <<ResponseRow(S_Id, 1, 0, <<>>)>>)>>),
     Schema(<<>>, <<Api(S_GetAgent,
                        <<[HasName |-> FALSE, Name |-> <<>>, Type |-> 1,
                           IsRequired |-> 0]>>,
                        <<>>)>>),
     Schema(<<Struct(S_Env, <<Element(S_Key, 1, 1, 0, <<>>)>>)>>,
            <<Api(S_CreateAgent,
                  <<Row(<<S_Envs, N_MARK, S_Key>>, 1, 0)>>,
                  <<ResponseRow(S_Envs, 7, 1, S_Env)>>),
              Api(S_GetAgent, <<Row(<<S_Name>>, 1, 1)>>,
                  <<ResponseRow(S_Id, 1, 0, <<>>)>>)>>)}

\* What json_file holds: nothing that can be opened, text that is not JSON,
\* or a schema.
JsonFiles ==
    {[kind |-> k, data |-> Schema(<<>>, <<>>)] :
       k \in {"unreadable", "malformed"}}
    \cup {[kind |-> "schema", data |-> d] : d \in MainSchemas}

\* The parsed arguments: --client-output, --client-class-name,
\* --service-name and --types-module are None unless given.
MainArgs ==
    [json_file : JsonFiles,
     client_output : {None, S_Client},
     client_class_name : {None, S_Client},
     service_name : {None, S_svc},
     types_module : {None, S_types}]

Args == history[1].args

\* The names of the required client arguments that have no value, in the
\* order of the message.
Missing(args) ==
    (IF args.client_class_name = None THEN <<"--client-class-name">>
     ELSE <<>>)
    \o (IF args.service_name = None THEN <<"--service-name">> ELSE <<>>)
    \o (IF args.types_module = None THEN <<"--types-module">> ELSE <<>>)

InitMain ==
    /\ NewGenerator
    /\ pc = "main"

\* parser.parse_args()
ParseArgs ==
    /\ pc = "main"
    /\ \E args \in MainArgs :
         history' = <<[op |-> "parse_args", args |-> args]>>
    /\ pc' = "load"
    /\ UNCHANGED <<generated_class_names, nested_models, types_output>>

\* open(args.json_file) and json.load: either raises, and main ends.
LoadJson ==
    /\ pc = "load"
    /\ IF Args.json_file.kind = "schema"
       THEN pc' = "generate" /\ UNCHANGED history
       ELSE /\ pc' = "failed"
            /\ history' = Append(history,
                  [op |-> "raise",
                   error |-> IF Args.json_file.kind = "unreadable"
                             THEN "OSError" ELSE "JSONDecodeError",
                   missing |-> <<>>])
    /\ UNCHANGED <<generated_class_names, nested_models, types_output>>

\* main going on to write the output whether or not generate_from_api_json
\* raised.
AfterGenerateSwallowing(r) ==
    /\ generated_class_names' = r.names
    /\ nested_models' = r.nested_models
    /\ types_output' = r.sections
    /\ pc' = "write_types"
    /\ UNCHANGED history

\* The generator after generate_from_api_json has ended with r.
AfterGenerate(r) ==
    /\ generated_class_names' = r.names
    /\ nested_models' = r.nested_models
    /\ IF r.raised = "none"
       THEN /\ types_output' = r.sections
            /\ pc' = "write_types"
            /\ UNCHANGED history
       ELSE /\ pc' = "failed"
            /\ history' = Append(history,
                  [op |-> "raise", error |-> r.raised, missing |-> <<>>])
            /\ UNCHANGED types_output

\* generator = APIStructGenerator(...); generator.generate_from_api_json.
GenerateTypes ==
    /\ pc = "generate"
    /\ AfterGenerate(generate_from_api_json(Args.json_file.data,
                       {base_model_name}, <<>>, base_model_name))

\* main going on to the client arguments with the types file not written.
WriteTypesDeferred ==
    /\ pc = "write_types"
    /\ pc' = "client"
    /\ UNCHANGED <<generated_class_names, nested_models, types_output,
                   history>>

\* open(args.output, 'w') and the write of the generated code.
WriteTypes ==
    /\ pc = "write_types"
    /\ history' = Append(history,
          [op |-> "write", file |-> "output", classes |-> types_output])
    /\ pc' = "client"
    /\ UNCHANGED <<generated_class_names, nested_models, types_output>>

\* "if args.client_output": nothing more is done without --client-output;
\* with it, a required argument without a value raises ValueError.
CheckClientArgs ==
    /\ pc = "client"
    /\ IF Args.client_output = None
       THEN pc' = "done" /\ UNCHANGED history
       ELSE IF Missing(Args) # <<>>
       THEN /\ pc' = "failed"
            /\ history' = Append(history,
                  [op |-> "raise", error |-> "ValueError",
                   missing |-> Missing(Args)])
       ELSE pc' = "write_client" /\ UNCHANGED history
    /\ UNCHANGED <<generated_class_names, nested_models, types_output>>

\* generate_client_module, then open(args.client_output, 'w') and the write.
WriteClient ==
    /\ pc = "write_client"
    /\ history' = Append(history,
          [op |-> "write", file |-> "client_output",
           client |-> generate_client_module(Args.json_file.data)])
    /\ pc' = "done"
    /\ UNCHANGED <<generated_class_names, nested_models, types_output>>

NextMain ==
    \/ ParseArgs
    \/ LoadJson
    \/ GenerateTypes
    \/ WriteTypes
    \/ CheckClientArgs
    \/ WriteClient

SpecMain == InitMain /\ [][NextMain]_vars

(***************************************************************************)
(* SpecMethods: the five methods that touch the registry, called in any    *)
(* order on one generator                                                  *)
(***************************************************************************)

\* The request rows given to generate_request_model: an array-object path,
\* and a path that makes parse_field_path raise after the class name has
\* been registered.
MethodRequests ==
    {<<Row(<<S_Envs, N_MARK, S_Key>>, 1, 0)>>,
     <<Row(<<S_Name>>, 1, 1), Row(<<N_MARK>>, 1, 0)>>}

MethodResponses == {<<ResponseRow(S_Id, 1, 0, <<>>)>>}

MethodDataTypes ==
    {<<Struct(S_Env, <<Element(S_Key, 1, 1, 0, <<>>)>>),
       Struct(S_Env, <<Element(S_Value, 2, 0, 1, <<>>)>>)>>,
     <<Struct(S_A \o S_Request, <<Element(S_Name, 1, 0, 0, <<>>)>>)>>}

InitMethods ==
    /\ NewGenerator
    /\ pc = "calls"

CallRequestModel ==
    /\ pc = "calls"
    /\ Len(history) < MaxCalls
    /\ \E action \in QualifyActions, parameters \in MethodRequests :
         AfterRequest(action, parameters,
           generate_request_model(action, parameters, generated_class_names,
                                  nested_models, base_model_name))
    /\ UNCHANGED <<types_output, pc>>

\* The generator after generate_response_model(action, parameters) has
\* returned p.
AfterResponse(action, parameters, p) ==
    /\ generated_class_names' = p.names
    /\ history' = Append(history,
          [op |-> "generate_response_model", action |-> action,
           parameters |-> parameters, before |-> generated_class_names,
           after |-> p.names, sections |-> p.sections])

CallResponseModel ==
    /\ pc = "calls"
    /\ Len(history) < MaxCalls
    /\ \E action \in QualifyActions, parameters \in MethodResponses :
         AfterResponse(action, parameters,
           generate_response_model(action, parameters, generated_class_names,
                                   base_model_name))
    /\ UNCHANGED <<nested_models, types_output, pc>>

\* The generator after generate_datatype_models(data_types) has returned d.
AfterDataTypeModels(data_types, d) ==
    /\ generated_class_names' = d.names
    /\ history' = Append(history,
          [op |-> "generate_datatype_models", data_types |-> data_types,
           before |-> generated_class_names, after |-> d.names,
           sections |-> d.sections])

CallDataTypeModels ==
    /\ pc = "calls"
    /\ Len(history) < MaxCalls
    /\ \E data_types \in MethodDataTypes :
         AfterDataTypeModels(data_types,
           generate_datatype_models(data_types, generated_class_names,
                                    base_model_name))
    /\ UNCHANGED <<nested_models, types_output, pc>>

NextMethods ==
    \/ RegisterClassName
    \/ QualifyModelName
    \/ CallRequestModel
    \/ CallResponseModel
    \/ CallDataTypeModels

SpecMethods == InitMethods /\ [][NextMethods]_vars

(***************************************************************************)
(* SpecRuns: generate_from_api_json run on a new generator, then a second  *)
(* generator constructed in the same process and run on the same schema    *)
(***************************************************************************)

\* A generator whose registry and node map are those of the generator
\* constructed before it, as they would be if they were attributes of the
\* class.
SharedInstance(previous) == previous

\* APIStructGenerator(): __init__ gives the new instance a registry holding
\* the base model name and an empty node map of its own, whatever the state
\* (previous) of the generators constructed before.
NewInstance(previous) ==
    [generated_class_names |-> {base_model_name}, nested_models |-> <<>>]

\* The entries of ApiList of the schemas run twice.
TwiceApis ==
    {Api(S_CreateAgent, <<Row(<<S_Envs, N_MARK, S_Key>>, 1, 0)>>,
         <<ResponseRow(S_Envs, 7, 1, S_Env)>>),
     Api(S_CreateAgent, <<Row(<<S_Name>>, 1, 1)>>, <<>>),
     Api(S_GetAgent, <<>>, <<ResponseRow(S_Id, 1, 0, <<>>)>>),
     Api(S_GetAgent,
         <<Row(<<S_Envs, S_Key>>, 1, 0), Row(<<N_MARK>>, 1, 0)>>, <<>>)}

TwiceSchemas ==
    {Schema(d, l) : d \in RunDataTypes,
                    l \in UNION {[1..n -> TwiceApis] : n \in 0..MaxApis}}

InitRuns ==
    /\ NewGenerator
    /\ pc = "first"

\* The generator and the history after a run of data has ended with r.
AfterRun(data, r) ==
    /\ generated_class_names' = r.names
    /\ nested_models' = r.nested_models
    /\ types_output' = r.sections
    /\ history' = Append(history,
          [op |-> "generate_from_api_json", data |-> data,
           raised |-> r.raised, sections |-> r.sections])

FirstRun ==
    /\ pc = "first"
    /\ \E data \in TwiceSchemas :
         AfterRun(data, generate_from_api_json(data, generated_class_names,
                                               nested_models, base_model_name))
    /\ pc' = "construct"

ConstructAgain ==
    /\ pc = "construct"
    /\ generated_class_names' =
          NewInstance([generated_class_names |-> generated_class_names,
                       nested_models |-> nested_models]).generated_class_names
    /\ nested_models' =
          NewInstance([generated_class_names |-> generated_class_names,
                       nested_models |-> nested_models]).nested_models
    /\ types_output' = <<>>
    /\ pc' = "second"
    /\ UNCHANGED history

SecondRun ==
    /\ pc = "second"
    /\ AfterRun(history[1].data,
         generate_from_api_json(history[1].data, generated_class_names,
                                nested_models, base_model_name))
    /\ pc' = "done"

NextRuns == FirstRun \/ ConstructAgain \/ SecondRun

SpecRuns == InitRuns /\ [][NextRuns]_vars

(***************************************************************************)
(* Properties of parse_field_path (SpecParse)                              *)
(***************************************************************************)

Ordinary(segs) == \A i \in 1..Len(segs) : segs[i] # N_MARK

\* The four classes of a parse result r, as the set of those that hold.
ClassesOf(r) ==
    {c \in {"root", "simple-array", "array-item", "plain-nested"} :
       \/ c = "root" /\ r.path_parts = <<>>
                     /\ ~r.is_array_item /\ ~r.is_simple_array
       \/ c = "simple-array" /\ r.is_simple_array
       \/ c = "array-item" /\ r.is_array_item
       \/ c = "plain-nested" /\ r.path_parts # <<>>
                             /\ ~r.is_array_item /\ ~r.is_simple_array}

\* C5: whenever parse_field_path returns, exactly one of the classes root,
\* simple-array, array-item and plain-nested holds of its result; in
\* particular is_array_item and is_simple_array are not both true.
C5_ExactlyOneClass ==
    \A i \in Calls("parse_field_path") :
       ~history[i].result.raised =>
          /\ Cardinality(ClassesOf(history[i].result)) = 1
          /\ ~(history[i].result.is_array_item
               /\ history[i].result.is_simple_array)

\* C6: a marker-free path of k >= 2 segments parses to its first k-1
\* segments as owner path and its last as leaf, both flags false; a path
\* "X.N" of a name and the marker parses to is_simple_array = TRUE, an empty
\* owner path and the leaf X.
C6_MarkerFreeAndRootSimpleArray ==
    \A i \in Calls("parse_field_path") :
       LET segs == history[i].segments
           r == history[i].result
       IN  /\ (Len(segs) >= 2 /\ Ordinary(segs)) =>
                 r = [raised |-> FALSE,
                      path_parts |-> Prefix(segs, Len(segs) - 1),
                      final_name |-> segs[Len(segs)],
                      is_array_item |-> FALSE, is_simple_array |-> FALSE]
           /\ (Len(segs) = 2 /\ segs[1] # N_MARK /\ segs[2] = N_MARK) =>
                 /\ ~r.raised
                 /\ r.is_simple_array
                 /\ r.path_parts = <<>>
                 /\ r.final_name = segs[1]

(***************************************************************************)
(* Properties of qualify_model_name (SpecQualify)                          *)
(***************************************************************************)

\* name is stem, or stem followed by the smallest k >= 2 for which the name
\* is not in the registry before, every earlier candidate being in it.
SmallestUnused(name, stem, before) ==
    \/ name = stem /\ stem \notin before
    \/ /\ stem \in before
       /\ \E k \in 2..(Cardinality(before) + 2) :
            /\ name = stem \o DecStr(k)
            /\ \A j \in 2..(k - 1) : stem \o DecStr(j) \in before

\* C8: each qualify_model_name call returns a name that was not in
\* generated_class_names before the call and is in it after, the name being
\* <Base>For<Action> or <Base>For<Action>k for the smallest unused k >= 2;
\* no two calls return the same name.
C8_QualifiedNamesNeverReused ==
    /\ \A i \in Calls("qualify_model_name") :
          LET h == history[i]
          IN  /\ h.result \notin h.before
              /\ h.result \in h.after
              /\ h.after = h.before \cup {h.result}
              /\ SmallestUnused(h.result,
                                h.base_name \o S_For \o h.action, h.before)
    /\ \A i, j \in Calls("qualify_model_name") :
          i # j => history[i].result # history[j].result
    /\ \A i \in 1..Len(history) :
          history[i].after =
             IF i = Len(history) THEN generated_class_names
             ELSE history[i + 1].before

\* C8's case: with EnvsForA and EnvsForA2 registered, a call for (Envs, A)
\* has returned EnvsForA3.
C8_Witness ==
    \E i \in Calls("qualify_model_name") :
       /\ history[i].base_name \o S_For \o history[i].action \in history[i].before
       /\ history[i].result = S_Envs \o S_For \o S_A \o <<"3">>
       /\ history[i].result \in generated_class_names

(***************************************************************************)
(* Properties of create_nested_structure and generate_request_model        *)
(* (SpecBuild)                                                             *)
(***************************************************************************)

\* The generate_request_model calls that returned.
Built == {i \in Calls("generate_request_model") : history[i].raised = "none"}

ModelNames(built) ==
    {built.nested_models[i].name : i \in 1..Len(built.nested_models)}

\* The fields of the model that built holds for path.
FieldsAt(built, path) ==
    LET i == CHOOSE k \in 1..Len(built.nested_models) :
                built.nested_models[k].path = path
    IN  built.nested_models[i].fields

\* The fields of the model named name.
FieldsOf(built, name) ==
    LET i == CHOOSE k \in 1..Len(built.nested_models) :
                built.nested_models[k].name = name
    IN  built.nested_models[i].fields

\* The path of the model named name.
PathOf(built, name) ==
    CHOOSE path \in DOMAIN built.path_class_names :
       built.path_class_names[path] = name

\* The field lists of all nodes: the root's and every nested model's.
NodeFields(built) ==
    {built.root} \cup
    {built.nested_models[i].fields : i \in 1..Len(built.nested_models)}

\* The models that the fields refer to: a reference field is a field whose
\* type is the class name of a model.
RefTargets(built, fields) ==
    {fields[i].type_str : i \in 1..Len(fields)} \cap ModelNames(built)

\* The models reachable from the set seen by following reference fields.
RECURSIVE ReachableFrom(_, _)
ReachableFrom(built, seen) ==
    LET more == UNION {RefTargets(built, FieldsOf(built, n)) : n \in seen}
    IN  IF more \subseteq seen THEN seen
        ELSE ReachableFrom(built, seen \cup more)

\* C1: every nested model that create_nested_structure created is reachable
\* from the root by following reference fields.
C1_EveryNodeReachable ==
    \A i \in Built :
       ModelNames(history[i].built) \subseteq
          ReachableFrom(history[i].built,
                        RefTargets(history[i].built, history[i].built.root))

\* C3: in the root and in every nested model, no two fields have the same
\* python_name.
C3_NoDuplicateIdentifier ==
    \A i \in Built :
       \A fields \in NodeFields(history[i].built) :
          \A j, k \in 1..Len(fields) :
             j # k => fields[j].python_name # fields[k].python_name

\* The rows of parameters that put a leaf named name under ownership path
\* path (the empty path being the root) and whose is_simple_array is simple.
LeafRows(parameters, path, name, simple) ==
    {j \in 1..Len(parameters) :
       LET p == parse_field_path(parameters[j].Name)
       IN  /\ Join(p.path_parts) = path
           /\ p.final_name = name
           /\ p.is_simple_array = simple}

\* The fields of one node obey C4: path is the node's ownership path.
ArrayTypedAsClassified(built, parameters, path, fields) ==
    \A j \in 1..Len(fields) :
       IF fields[j].type_str \in ModelNames(built)
       THEN fields[j].is_array <=>
               (PathOf(built, fields[j].type_str) \in built.array_objects)
       ELSE LeafRows(parameters, path, fields[j].name, fields[j].is_array)
               # {}

\* C4: a reference field to the model of path P is array-typed exactly when
\* P is an array-object path; a leaf field is array-typed exactly when a row
\* classified as a simple array produced it.
C4_ArrayExactlyWhenClassified ==
    \A i \in Built :
       LET built == history[i].built
       IN  /\ ArrayTypedAsClassified(built, history[i].parameters,
                                     <<>>, built.root)
           /\ \A k \in 1..Len(built.nested_models) :
                 ArrayTypedAsClassified(built, history[i].parameters,
                                        built.nested_models[k].path,
                                        built.nested_models[k].fields)

\* The rows of parameters directly under path (path is their whole
\* ownership path) that are array-item rows (item = TRUE) or plain rows
\* (item = FALSE); simple-array rows are neither.
RowsUnder(parameters, path, item) ==
    {j \in 1..Len(parameters) :
       LET p == parse_field_path(parameters[j].Name)
       IN  /\ p.path_parts # <<>>
           /\ Join(p.path_parts) = path
           /\ ~p.is_simple_array
           /\ p.is_array_item = item}

\* name is stem, or stem followed by a number.
IsQualified(name, stem, names) ==
    \/ name = stem
    \/ \E k \in 2..(Cardinality(names) + 2) : name = stem \o DecStr(k)

\* All the fields of built (of the root and of the models) that refer to the
\* model named name.
RefsTo(built, name) ==
    UNION {{fields[j] : j \in {k \in 1..Len(fields) :
                                  fields[k].type_str = name}} :
             fields \in NodeFields(built)}

\* C7: a path with both array-item rows and plain rows directly under it is
\* built as a non-array object: no Item suffix in its class name, its
\* array-item rows are plain scalar fields of its model, and no field that
\* refers to its model is array-typed.
C7_MixedPathIsPlainObject ==
    \A i \in Built :
       LET built == history[i].built
           parameters == history[i].parameters
       IN  \A path \in built.nested_object_paths :
              (/\ RowsUnder(parameters, path, TRUE) # {}
               /\ RowsUnder(parameters, path, FALSE) # {}) =>
                 /\ path \in DOMAIN built.path_class_names
                 /\ IsQualified(built.path_class_names[path],
                       build_nested_base_name(path, FALSE) \o S_For
                          \o history[i].action,
                       built.names)
                 /\ \A j \in RowsUnder(parameters, path, TRUE) :
                       \E k \in 1..Len(FieldsAt(built, path)) :
                          /\ FieldsAt(built, path)[k].name =
                                parse_field_path(parameters[j].Name).final_name
                          /\ ~FieldsAt(built, path)[k].is_array
                          /\ FieldsAt(built, path)[k].type_str =
                                get_python_type(parameters[j].Type)
                 /\ \A f \in RefsTo(built, built.path_class_names[path]) :
                       ~f.is_array

\* The emitted line of a leaf row whose leaf is named name: a scalar that is
\* not array-typed, required iff IsRequired = 1.
ScalarLine(row, name) ==
    [python_name |-> to_snake_case(name),
     final_type |-> IF row.IsRequired = 1
                    THEN <<"plain", get_python_type(row.Type)>>
                    ELSE <<"Optional", <<"plain", get_python_type(row.Type)>>>>,
     default_value |-> IF row.IsRequired = 1 THEN "..." ELSE "default=None",
     alias |-> name]

IsRootScalarRow(row) ==
    Len(Split(row.Name)) = 1 /\ Split(row.Name)[1] # N_MARK

IsItemRow(row) ==
    /\ Len(Split(row.Name)) = 3
    /\ Split(row.Name)[1] # N_MARK
    /\ Split(row.Name)[2] = N_MARK
    /\ Split(row.Name)[3] # N_MARK

\* The requests of C9: root scalar rows plus at least one row "P.N.f", all
\* under the same first-level path P.
IsItemRequest(parameters) ==
    /\ \A j \in 1..Len(parameters) :
          IsRootScalarRow(parameters[j]) \/ IsItemRow(parameters[j])
    /\ \E j \in 1..Len(parameters) : IsItemRow(parameters[j])
    /\ \A j, k \in 1..Len(parameters) :
          (IsItemRow(parameters[j]) /\ IsItemRow(parameters[k])) =>
             Split(parameters[j].Name)[1] = Split(parameters[k].Name)[1]

\* The two class definitions C9 expects for such a request: the item type,
\* then the root.
ItemRequestSections(action, parameters) ==
    LET item_rows == SelectSeq(parameters, IsItemRow)
        root_rows == SelectSeq(parameters, IsRootScalarRow)
        P == Split(item_rows[1].Name)[1]
        item_name == strip_generic_suffix(P) \o S_Item \o S_For \o action
    IN  << [class |-> item_name, base |-> base_model_name,
            lines |-> [k \in 1..Len(item_rows) |->
                         ScalarLine(item_rows[k],
                                    Split(item_rows[k].Name)[3])]],
           [class |-> action \o S_Request, base |-> base_model_name,
            lines |-> [k \in 1..Len(root_rows) |->
                         ScalarLine(root_rows[k], root_rows[k].Name)]
                      \o <<[python_name |-> to_snake_case(P),
                            final_type |-> <<"Optional", <<"list", item_name>>>>,
                            default_value |-> "default=None",
                            alias |-> P]>>] >>

\* C9: for root scalar rows plus rows "P.N.f" under one first-level path P,
\* generate_request_model emits exactly the item type
\* <P stripped>ItemFor<Action>, one scalar field per row "P.N.f", and then
\* the root <Action>Request with the root scalar fields and one optional
\* field for P typed as a list of the item type.
C9_ItemTypeThenRoot ==
    \A i \in Calls("generate_request_model") :
       IsItemRequest(history[i].parameters) =>
          /\ history[i].raised = "none"
          /\ history[i].sections =
                ItemRequestSections(history[i].action, history[i].parameters)

\* The rows of C10: at least three segments, the last one the marker, the
\* others ordinary names.
IsDeepSimpleArrayRow(row) ==
    /\ Len(Split(row.Name)) >= 3
    /\ Split(row.Name)[Len(Split(row.Name))] = N_MARK
    /\ Ordinary(Prefix(Split(row.Name), Len(Split(row.Name)) - 1))

IsPrefixOf(a, b) == Len(a) <= Len(b) /\ Prefix(b, Len(a)) = a

\* The positions of the fields of fields whose python_name is id.
Positions(fields, id) == {k \in 1..Len(fields) : fields[k].python_name = id}

\* What C10 says of row j of a request that built has been made of: owner
\* is S1..Sk, leaf is L and field the array-of-scalar field of the row.
DeepSimpleArrayBuilt(built, parameters, j, owner, leaf, field) ==
    \* every non-empty prefix of the owner path has a model
    /\ \A k \in 1..Len(owner) :
          Join(Prefix(owner, k)) \in DOMAIN built.path_class_names
    \* the row creates no model for L: one exists only if another row lies
    \* under S1..Sk.L
    /\ Join(Append(owner, leaf)) \in DOMAIN built.path_class_names =>
          \E k \in 1..Len(parameters) :
             /\ k # j
             /\ IsPrefixOf(Append(owner, leaf),
                           parse_field_path(parameters[k].Name).path_parts)
    \* the model of S1..Sk has a field named after L; it is the row's
    \* array-of-scalar field, present once, unless a child model or an earlier
    \* row had taken the identifier
    /\ Positions(FieldsAt(built, Join(owner)), field.python_name) # {}
    /\ (/\ \A path \in DOMAIN built.path_class_names :
              ~(/\ Len(Split(path)) = Len(owner) + 1
                /\ IsPrefixOf(owner, Split(path))
                /\ to_snake_case(Split(path)[Len(owner) + 1])
                      = field.python_name)
        /\ \A k \in 1..(j - 1) :
              ~(/\ parse_field_path(parameters[k].Name).path_parts = owner
                /\ to_snake_case(parse_field_path(parameters[k].Name).final_name)
                      = field.python_name))
       => /\ Cardinality({k \in 1..Len(FieldsAt(built, Join(owner))) :
                            FieldsAt(built, Join(owner))[k] = field}) = 1
          /\ \A k \in Positions(FieldsAt(built, Join(owner)),
                                field.python_name) :
                FieldsAt(built, Join(owner))[k] = field
                \/ \E m \in 1..(k - 1) :
                      FieldsAt(built, Join(owner))[m] = field
    \* alone in its request, the row creates exactly the models of the
    \* non-empty prefixes of S1..Sk, and the model of S1..Sk holds its field
    \* and nothing else
    /\ Len(parameters) = 1 =>
          /\ DOMAIN built.path_class_names =
                {Join(Prefix(owner, k)) : k \in 1..Len(owner)}
          /\ Len(built.nested_models) = Len(owner)
          /\ FieldsAt(built, Join(owner)) = <<field>>
          /\ built.root = <<>>

C2_NoClassEmittedTwice ==
    \A i, j \in 1..Len(types_output) :
       i # j => types_output[i].class # types_output[j].class

(***************************************************************************)
(* Properties of the skip on a registered name (Spec)                      *)
(***************************************************************************)

\* The class names of a sequence of class definitions.
ClassNames(sections) == {sections[k].class : k \in 1..Len(sections)}

\* The names the run has emitted as response types or as DataType structs.
ResponseOrStructNames ==
    UNION ({ClassNames(history[i].response_sections) : i \in Calls("api")}
           \cup {ClassNames(history[i].sections) :
                   i \in Calls("generate_datatype_models")})

\* C11: a response type or DataType struct whose name is registered already
\* is skipped, emitting nothing and leaving the registry as it is, so that
\* the name of a response type or of a struct is emitted at most once in
\* the run.
C11_RegisteredNameSkipped ==
    /\ \A i \in Calls("api") :
          LET h == history[i]
          IN  (/\ h.raised \in {"none", "skipped"}
               /\ h.response_params # <<>>
               /\ h.action \o S_Response \in h.mid)
              => (h.response_sections = <<>> /\ h.after = h.mid)
    /\ \A i \in Calls("generate_datatype_models") :
          LET h == history[i]
          IN  /\ \A k, l \in 1..Len(h.sections) :
                    k # l => h.sections[k].class # h.sections[l].class
              /\ ClassNames(h.sections) \cap h.before = {}
              /\ h.after = h.before \cup ClassNames(h.sections)
    /\ \A i, j \in 1..Len(types_output) :
          (i # j /\ types_output[i].class = types_output[j].class)
             => types_output[i].class \notin ResponseOrStructNames

\* The skipping part of C11 alone.
SkipLeavesRegistry ==
    /\ \A i \in Calls("api") :
          LET h == history[i]
          IN  (/\ h.raised \in {"none", "skipped"}
               /\ h.response_params # <<>>
               /\ h.action \o S_Response \in h.mid)
              => (h.response_sections = <<>> /\ h.after = h.mid)
    /\ \A i, j \in Calls("api") :
          (i # j /\ history[i].response_sections # <<>>)
             => history[i].response_sections[1].class
                   \notin ClassNames(history[j].response_sections)

(***************************************************************************)
(* Properties of to_snake_case (SpecSnake)                                 *)
(***************************************************************************)

HasUnderscoreRun(s) == \E k \in 1..(Len(s) - 1) : s[k] = "_" /\ s[k + 1] = "_"

\* C12: to_snake_case is idempotent: applied to its own result it returns
\* that result, and a result has no uppercase letter and no run of two or
\* more underscores.
C12_SnakeCaseIdempotent ==
    /\ \A i \in Calls("to_snake_case") :
          /\ \A k \in 1..Len(history[i].result) : ~IsUpper(history[i].result[k])
          /\ ~HasUnderscoreRun(history[i].result)
    /\ Len(history) = 2 =>
          /\ history[2].name = history[1].result
          /\ history[2].result = history[1].result

\* C12's case: the name "bA__" has been normalized to "b_a_" (an underscore
\* inserted, a run collapsed, the letter lowered), and the second application
\* has returned.
C12_Witness ==
    /\ Len(history) = 2
    /\ history[1].name = <<"b", "A", "_", "_">>
    /\ history[1].result = <<"b", "_", "a", "_">>
    /\ history[2].result = <<"b", "_", "a", "_">>

(***************************************************************************)
(* Properties of rows without a name (Spec)                                *)
(***************************************************************************)

\* Some row of rows has no name.
HasNameless(rows) == \E k \in 1..Len(rows) : ~rows[k].HasName

\* The run has met a row without a name: in the RequestParameters or the
\* ResponseParameters of an entry of ApiList, or in the elements of a
\* DataType struct.
MetNamelessRow ==
    \/ \E i \in Calls("api") :
          \/ HasNameless(history[i].request_params)
          \/ HasNameless(history[i].response_params)
    \/ \E i \in Calls("generate_datatype_models") :
          \E k \in 1..Len(history[i].data_types) :
             HasNameless(history[i].data_types[k].Element)

\* C13: a request row, response row or DataType element without its name
\* aborts the run with an error; it is neither skipped nor emitted as a
\* field with an empty name.
C13_NamelessRowIsFatal ==
    /\ MetNamelessRow => pc = "raised"
    /\ \A i \in 1..Len(types_output) :
          \A k \in 1..Len(types_output[i].lines) :
             types_output[i].lines[k].alias # <<>>

\* The request part of C13: a request row without its name raises.
NamelessRequestRowRaises ==
    \A i \in Calls("api") :
       HasNameless(history[i].request_params) => history[i].raised = "KeyError"

(***************************************************************************)
(* Properties of main (SpecMain)                                           *)
(***************************************************************************)

\* The number of the three required client arguments that were given.
Supplied(args) ==
    Cardinality({k \in {"client_class_name", "service_name", "types_module"} :
                   args[k] # None})

\* C14: when at least one but not all of --client-class-name,
\* --service-name and --types-module is given, main ends in a configuration
\* error that names exactly the missing ones; it never ends normally.
C14_PartialClientArgsFatal ==
    (/\ Len(history) >= 1
     /\ Supplied(Args) \in {1, 2}
     /\ Args.json_file.kind = "schema"
     /\ generate_from_api_json(Args.json_file.data, {base_model_name}, <<>>,
                               base_model_name).raised = "none")
    => /\ pc # "done"
       /\ pc = "failed" =>
             /\ Last(history).op = "raise"
             /\ Last(history).error = "ValueError"
             /\ Last(history).missing = Missing(Args)

(***************************************************************************)
(* Properties of independent runs (SpecRuns)                               *)
(***************************************************************************)

C16_RegistryOnlyGrows ==
    /\ [](base_model_name \in generated_class_names)
    /\ [][generated_class_names \subseteq generated_class_names']_vars

\* C16's case: after a generate_datatype_models call, a
\* generate_request_model call that created an item model and a
\* generate_response_model call, the registry holds the base model name and
\* the names of all three.
C16_Witness ==
    /\ Len(history) = 3
    /\ history[1].op = "generate_datatype_models"
    /\ history[2].op = "generate_request_model"
    /\ history[3].op = "generate_response_model"
    /\ {base_model_name, S_Env, S_A \o S_Request,
        S_Envs \o S_Item \o S_For \o S_A, S_A \o S_Response}
          \subseteq generated_class_names

\* The files main has written so far.
Written == {history[i].file : i \in Calls("write")}

\* C17: main writes no file unless the schema was read and parsed and
\* generate_from_api_json returned; an unreadable or malformed json_file
\* ends main with the exception and nothing written.
C17_NoOutputUnlessGenerated ==
    /\ Written # {} =>
          /\ Args.json_file.kind = "schema"
          /\ generate_from_api_json(Args.json_file.data, {base_model_name},
                                    <<>>, base_model_name).raised = "none"
    /\ (/\ Len(history) >= 1
        /\ Args.json_file.kind # "schema"
        /\ pc # "load")
       => /\ pc = "failed"
          /\ Last(history).op = "raise"
          /\ Last(history).error \in {"OSError", "JSONDecodeError"}
          /\ Written = {}

\* C17's case: main was given --client-output and all client arguments and
\* a json_file that is not JSON; it has ended with the decoding error and
\* has written nothing.
C17_Witness ==
    /\ pc = "failed"
    /\ Args.json_file.kind = "malformed"
    /\ Args.client_output # None
    /\ Missing(Args) = <<>>
    /\ Last(history).error = "JSONDecodeError"
    /\ Written = {}

(***************************************************************************)
(* Properties of the discovery pass of create_nested_structure (SpecBuild) *)
(***************************************************************************)

\* The array marker stands before the last segment of the path.
MarkerInside(segs) == \E k \in 1..(Len(segs) - 1) : segs[k] = N_MARK

\* The path has at least two segments and ends in the array marker.
MarkerLast(segs) == Len(segs) >= 2 /\ segs[Len(segs)] = N_MARK

\* The owner path of a row: its segments without the markers and without
\* the leaf.
OwnerOf(row) ==
    Prefix(CleanParts(Split(row.Name)), Len(CleanParts(Split(row.Name))) - 1)

\* The non-empty prefixes of the owner paths of the rows.
OwnerPrefixes(parameters) ==
    UNION {{Join(Prefix(OwnerOf(parameters[j]), k)) :
              k \in 1..Len(OwnerOf(parameters[j]))} :
           j \in 1..Len(parameters)}

\* The rows whose whole owner path is path.
RowsOwnedBy(parameters, path) ==
    {j \in 1..Len(parameters) :
       OwnerOf(parameters[j]) # <<>> /\ Join(OwnerOf(parameters[j])) = path}

\* The array-item rows under path: the marker stands inside their path.
ItemRowsAt(parameters, path) ==
    {j \in RowsOwnedBy(parameters, path) :
       MarkerInside(Split(parameters[j].Name))}

\* The plain and the simple-array rows under path: no marker inside their
\* path, or the marker at its end.
PlainOrSimpleRowsAt(parameters, path) ==
    {j \in RowsOwnedBy(parameters, path) :
       \/ ~MarkerInside(Split(parameters[j].Name))
       \/ MarkerLast(Split(parameters[j].Name))}

\* The model of path is named as an array object: Item after the base name.
NamedAsItem(built, action, path) ==
    IsQualified(built.path_class_names[path],
                build_nested_base_name(path, TRUE) \o S_For \o action,
                built.names)

\* C18: create_nested_structure makes one model per distinct non-empty
\* prefix of a row's owner path and no other, and the model of a path is an
\* array object (Item in its name) exactly when at least one array-item row
\* and no plain or simple-array row has the path as its whole owner path.
C18_DiscoveryPass ==
    \A i \in Built :
       /\ DOMAIN history[i].built.path_class_names
             = OwnerPrefixes(history[i].parameters)
       /\ {history[i].built.nested_models[k].path :
             k \in 1..Len(history[i].built.nested_models)}
             = OwnerPrefixes(history[i].parameters)
       /\ Len(history[i].built.nested_models)
             = Cardinality(OwnerPrefixes(history[i].parameters))
       /\ \A path \in OwnerPrefixes(history[i].parameters) :
             /\ (path \in history[i].built.array_objects)
                   <=> NamedAsItem(history[i].built, history[i].action, path)
             /\ NamedAsItem(history[i].built, history[i].action, path)
                   <=> /\ ItemRowsAt(history[i].parameters, path) # {}
                       /\ PlainOrSimpleRowsAt(history[i].parameters, path) = {}

\* C18 for the requests that have no row with the marker both inside the
\* path and at its end.
DiscoveryPassWithoutDoubleMarker ==
    \A i \in Built :
       (\A j \in 1..Len(history[i].parameters) :
           ~(/\ MarkerInside(Split(history[i].parameters[j].Name))
             /\ MarkerLast(Split(history[i].parameters[j].Name))))
       => /\ DOMAIN history[i].built.path_class_names
                = OwnerPrefixes(history[i].parameters)
          /\ Len(history[i].built.nested_models)
                = Cardinality(OwnerPrefixes(history[i].parameters))
          /\ \A path \in OwnerPrefixes(history[i].parameters) :
                NamedAsItem(history[i].built, history[i].action, path)
                   <=> /\ ItemRowsAt(history[i].parameters, path) # {}
                       /\ PlainOrSimpleRowsAt(history[i].parameters, path) = {}

(***************************************************************************)
(* Properties of the generated client module (SpecMain)                    *)
(***************************************************************************)

\* C19: every type name that the client module imports from the types
\* module or uses in a method signature is a class that
\* generate_from_api_json emitted for the same schema.
C19_ClientTypesAreEmitted ==
    \A i \in Calls("write") :
       history[i].file = "client_output" =>
          /\ history[i].client.type_names \subseteq ClassNames(types_output)
          /\ \A k \in 1..Len(history[i].client.methods) :
                {history[i].client.methods[k].req_type,
                 history[i].client.methods[k].resp_type}
                   \subseteq ClassNames(types_output)

(***************************************************************************)
(* Properties of the order of the rows (SpecBuild)                         *)
(***************************************************************************)

\* parameters in the order given by the permutation perm of its indices.
Permuted(parameters, perm) ==
    [k \in 1..Len(parameters) |-> parameters[perm[k]]]

\* The reference fields among fields, each as its type and whether it is
\* array-typed.
RefsIn(built, fields) ==
    {<<fields[k].type_str, fields[k].is_array>> :
       k \in {j \in 1..Len(fields) : fields[j].type_str \in ModelNames(built)}}

\* The array status of every reference field of built: the root's
\* references, and those of every model under the model's path.
RefStatus(built) ==
    [root |-> RefsIn(built, built.root),
     models |-> {<<built.nested_models[k].path,
                   RefsIn(built, built.nested_models[k].fields)>> :
                 k \in 1..Len(built.nested_models)}]

\* a and b assign the same class names to the paths and give every
\* reference field the same array status.
SameShape(a, b) ==
    /\ (a.raised = "none") <=> (b.raised = "none")
    /\ (a.raised = "none" /\ b.raised = "none") =>
          /\ a.path_class_names = b.path_class_names
          /\ RefStatus(a) = RefStatus(b)

\* C20: for a fixed action and registry, every permutation of the rows
\* makes create_nested_structure assign the same class names to the
\* ownership paths and the same array status to every reference field.
C20_RowOrderIrrelevant ==
    \A i \in Calls("generate_request_model") :
       \A perm \in Permutations(1..Len(history[i].parameters)) :
          SameShape(history[i].built,
             create_nested_structure(
               Permuted(history[i].parameters, perm), history[i].action,
               register_class_name(history[i].class_name,
                                   history[i].before)))

\* The class-name part of C20 alone.
RowOrderKeepsClassNames ==
    \A i \in Built :
       \A perm \in Permutations(1..Len(history[i].parameters)) :
          history[i].built.path_class_names =
             create_nested_structure(
               Permuted(history[i].parameters, perm), history[i].action,
               register_class_name(history[i].class_name,
                                   history[i].before)).path_class_names

(***************************************************************************)
(* The order of the writes and the argument check in main (SpecMain)       *)
(***************************************************************************)

\* The positions in history of the configuration errors raised.
ConfigErrors ==
    {i \in 1..Len(history) :
       history[i].op = "raise" /\ history[i].error = "ValueError"}

\* C21: when --client-output is given and a required client argument is
\* missing, the configuration error is raised after the types file has been
\* written, with all the generated code, and before the client file is
\* opened: main ends with the types file written and the client file not.
C21_TypesWrittenBeforeConfigError ==
    /\ \A i \in ConfigErrors :
          /\ Args.client_output # None
          /\ history[i].missing = Missing(Args)
          /\ Missing(Args) # <<>>
          /\ i = Len(history)
          /\ pc = "failed"
          /\ \E j \in 1..(i - 1) :
                /\ history[j].op = "write"
                /\ history[j].file = "output"
                /\ history[j].classes = types_output
          /\ Written = {"output"}
    /\ (/\ Len(history) >= 1
        /\ Args.client_output # None
        /\ Missing(Args) # <<>>)
       => /\ "client_output" \notin Written
          /\ pc # "write_client"
          /\ pc \in {"done", "failed"} =>
                /\ pc = "failed"
                /\ Last(history).op = "raise"
                /\ Last(history).error = "ValueError" => Written = {"output"}
                /\ Last(history).error # "ValueError" => Written = {}

\* C21's case: main was given --client-output and --client-class-name but
\* neither --service-name nor --types-module, and a schema with two actions;
\* it has written the types file and ended with the configuration error.
C21_Witness ==
    /\ pc = "failed"
    /\ Args.client_output # None
    /\ Args.client_class_name # None
    /\ Last(history).error = "ValueError"
    /\ Last(history).missing = <<"--service-name", "--types-module">>
    /\ Len(Args.json_file.data.ApiList) = 2
    /\ Written = {"output"}

====
